---- MODULE Spec2Model ----
(***************************************************************************)
(* Model of the Linear foreign data wrapper (src/src/lib.rs): the single   *)
(* LinearFdw instance (src_rows, src_idx, base_url, api_key) and the       *)
(* handlers the host calls on it: init, begin_scan, iter_scan, end_scan,   *)
(* re_scan, begin_modify, insert, update, delete, end_modify.              *)
(*                                                                         *)
(* Strings the code takes apart character by character (column and qual    *)
(* field names, JSON object keys) are sequences of one-character strings;  *)
(* strings it only compares or copies are TLA+ strings.  A text built by   *)
(* format! is a record holding the format string and its arguments.        *)
(***************************************************************************)
EXTENDS Integers, Sequences, FiniteSets, TLC

VARIABLES
    inited,    \* init has returned Ok: INSTANCE points at a configured LinearFdw
    src_rows,  \* LinearFdw.src_rows : Vec<JsonValue>
    src_idx,   \* LinearFdw.src_idx  : usize
    base_url,  \* LinearFdw.base_url
    api_key,   \* LinearFdw.api_key
    ctx,       \* the host Context: server options, table options, columns, quals
    remote,    \* the records the remote API can put in a response
    out,       \* what the last handler call returned, sent and pushed
    scan_pos   \* iter_scan calls since the last successful begin_scan, -1 once
               \* another call came in between

vars == <<inited, src_rows, src_idx, base_url, api_key, ctx, remote, out, scan_pos>>

----------------------------------------------------------------------------
(* Bounds of the environment                                               *)

MaxRows == 2    \* longest node array the remote API answers with
MaxQuals == 2   \* longest qual list of a scan

----------------------------------------------------------------------------
(* Option<T>                                                               *)

None == <<>>
Some(x) == <<x>>
is_some(o) == Len(o) > 0
is_none(o) == Len(o) = 0
unwrap(o) == o[1]
\* Option::and_then
and_then(o, F(_)) == IF is_some(o) THEN F(unwrap(o)) ELSE None

----------------------------------------------------------------------------
(* Names as character sequences                                            *)

n_id == <<"i", "d">>
n_title == <<"t", "i", "t", "l", "e">>
n_name == <<"n", "a", "m", "e">>
n_nodes == <<"n", "o", "d", "e", "s">>
n_state == <<"s", "t", "a", "t", "e">>
n_team == <<"t", "e", "a", "m">>
n_assignee == <<"a", "s", "s", "i", "g", "n", "e", "e">>
n_creator == <<"c", "r", "e", "a", "t", "o", "r">>
n_parent == <<"p", "a", "r", "e", "n", "t">>
n_project == <<"p", "r", "o", "j", "e", "c", "t">>
n_cycle == <<"c", "y", "c", "l", "e">>
n_labels == <<"l", "a", "b", "e", "l", "s">>
n_estimate == <<"e", "s", "t", "i", "m", "a", "t", "e">>
n_state_id == n_state \o <<"_">> \o n_id
n_team_id == n_team \o <<"_">> \o n_id
n_assignee_id == n_assignee \o <<"_">> \o n_id
n_creator_id == n_creator \o <<"_">> \o n_id
n_parent_id == n_parent \o <<"_">> \o n_id
n_project_id == n_project \o <<"_">> \o n_id
n_cycle_id == n_cycle \o <<"_">> \o n_id
n_created_at == <<"c", "r", "e", "a", "t", "e", "d", "_", "a", "t">>
n_createdAt == <<"c", "r", "e", "a", "t", "e", "d", "A", "t">>
n_data == <<"d", "a", "t", "a">>
n_errors == <<"e", "r", "r", "o", "r", "s">>
n_issue == <<"i", "s", "s", "u", "e">>
n_issues == n_issue \o <<"s">>
n_teams == n_team \o <<"s">>
n_projects == n_project \o <<"s">>
n_user == <<"u", "s", "e", "r">>
n_users == n_user \o <<"s">>
n_cycles == n_cycle \o <<"s">>
n_assignedIssues == <<"a", "s", "s", "i", "g", "n", "e", "d", "I", "s", "s", "u", "e", "s">>
n_workflowStates == <<"w", "o", "r", "k", "f", "l", "o", "w", "S", "t", "a", "t", "e", "s">>
n_issueLabels == <<"i", "s", "s", "u", "e", "L", "a", "b", "e", "l", "s">>

Lower == <<"a", "b", "c", "d", "e", "f", "g", "h", "i", "j", "k", "l", "m",
           "n", "o", "p", "q", "r", "s", "t", "u", "v", "w", "x", "y", "z">>
Upper == <<"A", "B", "C", "D", "E", "F", "G", "H", "I", "J", "K", "L", "M",
           "N", "O", "P", "Q", "R", "S", "T", "U", "V", "W", "X", "Y", "Z">>

to_ascii_uppercase(c) ==
    IF \E i \in 1..26 : Lower[i] = c
    THEN Upper[CHOOSE i \in 1..26 : Lower[i] = c]
    ELSE c

RECURSIVE snake_loop(_, _, _, _)
snake_loop(s, i, uppercase, result) ==
    IF i > Len(s) THEN result
    ELSE IF s[i] = "_" THEN snake_loop(s, i + 1, TRUE, result)
    ELSE IF uppercase
         THEN snake_loop(s, i + 1, FALSE, Append(result, to_ascii_uppercase(s[i])))
         ELSE snake_loop(s, i + 1, uppercase, Append(result, s[i]))

snake_to_camel(s) == snake_loop(s, 1, FALSE, <<>>)

----------------------------------------------------------------------------
(* serde_json::Value.  A 64-bit integer is kept as its upper 32 bits (hi,  *)
(* signed) and its lower 32 bits read as a signed 32-bit integer (lo):     *)
(* value = hi * 2^32 + (lo mod 2^32).                                      *)

JNull == [t |-> "null"]
JBool(b) == [t |-> "bool", b |-> b]
JInt(hi, lo) == [t |-> "int", hi |-> hi, lo |-> lo]
JFloat(f) == [t |-> "float", f |-> f]
JStr(s) == [t |-> "str", s |-> s]
JArr(items) == [t |-> "arr", items |-> items]
JObj(map) == [t |-> "obj", map |-> map]

is_object(v) == v.t = "obj"
as_object(v) == IF v.t = "obj" THEN Some(v) ELSE None
as_array(v) == IF v.t = "arr" THEN Some(v.items) ELSE None
as_str(v) == IF v.t = "str" THEN Some(v.s) ELSE None
as_bool(v) == IF v.t = "bool" THEN Some(v.b) ELSE None
\* None for a float (and for an unsigned value above i64::MAX, kept as a float here)
as_i64(v) == IF v.t = "int" THEN Some([hi |-> v.hi, lo |-> v.lo]) ELSE None

\* Value::get(key): None for a missing key or a non-object
get(v, key) ==
    IF v.t = "obj" /\ key \in DOMAIN v.map THEN Some(v.map[key]) ELSE None

\* Value::pointer along object keys (no path of the code indexes an array)
RECURSIVE pointer(_, _)
pointer(v, path) ==
    IF path = <<>> THEN Some(v)
    ELSE IF v.t = "obj" /\ Head(path) \in DOMAIN v.map
         THEN pointer(v.map[Head(path)], Tail(path))
         ELSE None

----------------------------------------------------------------------------
(* begin_scan: field selection                                             *)

\* one entry of graphql_fields for a requested column
graphql_field(col_name) ==
    CASE col_name = n_state -> [sel |-> "state { id name color }"]
      [] col_name = n_state_id -> [sel |-> "state { id }"]
      [] col_name = n_team_id -> [sel |-> "team { id }"]
      [] col_name = n_assignee_id -> [sel |-> "assignee { id }"]
      [] col_name = n_creator_id -> [sel |-> "creator { id }"]
      [] col_name = n_parent_id -> [sel |-> "parent { id }"]
      [] col_name = n_project_id -> [sel |-> "project { id }"]
      [] col_name = n_cycle_id -> [sel |-> "cycle { id }"]
      [] col_name = n_labels -> [sel |-> "labels { nodes { id name color } }"]
      [] OTHER -> [field |-> snake_to_camel(col_name)]

\* graphql_fields, in column order (joined by a newline in the query text)
graphql_fields(columns) == [i \in 1..Len(columns) |-> graphql_field(columns[i].name)]

----------------------------------------------------------------------------
(* begin_scan: quals to filter conditions                                  *)

filter_op_ne(operator) ==
    CASE operator = "=" -> Some("eq")
      [] operator = "<>" -> Some("ne")
      [] operator = ">" -> Some("gt")
      [] operator = ">=" -> Some("gte")
      [] operator = "<" -> Some("lt")
      [] operator = "<=" -> Some("lte")
      [] operator = "~~" -> Some("contains")
      [] operator = "!~~" -> Some("notContains")
      [] operator = "~~*" -> Some("containsIgnoreCase")
      [] operator = "!~~*" -> Some("notContainsIgnoreCase")
      [] operator = "IS NULL" -> Some("null")
      [] operator = "IS NOT NULL" -> Some("notNull")
      [] OTHER -> None

\* SQL operator to Linear filter operator; None is the `_ => continue` arm
filter_op(operator) ==
    CASE operator = "=" -> Some("eq")
      [] operator = "<>" -> Some("neq")
      [] operator = ">" -> Some("gt")
      [] operator = ">=" -> Some("gte")
      [] operator = "<" -> Some("lt")
      [] operator = "<=" -> Some("lte")
      [] operator = "~~" -> Some("contains")
      [] operator = "!~~" -> Some("notContains")
      [] operator = "~~*" -> Some("containsIgnoreCase")
      [] operator = "!~~*" -> Some("notContainsIgnoreCase")
      [] operator = "IS NULL" -> Some("null")
      [] operator = "IS NOT NULL" -> Some("notNull")
      [] OTHER -> None

\* A qual value is Value::Cell(cell) or Value::Array; a cell carries its variant
\* and the text to_string gives for its payload.  None is a `continue` arm.
formatted_value(value) ==
    IF value.v = "Cell"
    THEN CASE value.cell.c = "String" -> Some([quoted |-> TRUE, text |-> value.cell.text])
           [] value.cell.c = "Bool" -> Some([quoted |-> FALSE, text |-> value.cell.text])
           [] value.cell.c = "I32" -> Some([quoted |-> FALSE, text |-> value.cell.text])
           [] value.cell.c = "I64" -> Some([quoted |-> FALSE, text |-> value.cell.text])
           [] value.cell.c = "Timestamp" -> Some([quoted |-> TRUE, text |-> value.cell.text])
           [] OTHER -> None
    ELSE None

\* the loop over quals: filters.push(format!("{}: {{ {}: {} }}", ...)) or continue
RECURSIVE filters_loop(_, _, _)
filters_loop(quals, i, filters) ==
    IF i > Len(quals) THEN filters
    ELSE LET field == snake_to_camel(quals[i].field)
             op == filter_op(quals[i].operator)
             val == formatted_value(quals[i].value)
         IN  IF is_none(op) THEN filters_loop(quals, i + 1, filters)
             ELSE IF is_none(val) THEN filters_loop(quals, i + 1, filters)
             ELSE filters_loop(quals, i + 1,
                      Append(filters, [field |-> field, op |-> unwrap(op),
                                       value |-> unwrap(val)]))

\* filter_conditions as a text: the empty string, or "filter: { f1, f2 }"
EmptyString == [fmt |-> "", filters |-> <<>>]
is_empty(text) == text.fmt = ""

filter_clause_always(filters) == [fmt |-> "filter: { $filters }", filters |-> filters]

\* if !filters.is_empty() { filter_conditions = format!("filter: {{ {} }}", ..) }
filter_clause(filters) ==
    IF filters # <<>>
    THEN [fmt |-> "filter: { $filters }", filters |-> filters]
    ELSE EmptyString

filter_conditions(quals) ==
    IF quals # <<>> THEN filter_clause(filters_loop(quals, 1, <<>>)) ELSE EmptyString

----------------------------------------------------------------------------
(* begin_scan: query text and response pointer per object                  *)

\* A query text is its format string with the arguments put in its slots
\* ($id, $filter, $fields); a slot the format string lacks is None.
Built(fmt, id, filter, fields, resp_pointer) ==
    [ok |-> TRUE,
     query |-> [fmt |-> fmt, id |-> id, filter |-> filter, fields |-> fields],
     resp_pointer |-> resp_pointer]

Failed(err) == [ok |-> FALSE, err |-> err]

collection_query_plain(root, resp_pointer, filter, fields) ==
    Built("{ " \o root \o " { nodes { $fields } } }", None, None, fields, resp_pointer)

\* arms "issues", "teams", "projects", "users", "cycles", "workflow_states",
\* "issue_labels": the filter goes in only when filter_conditions is not empty
collection_query(root, resp_pointer, filter, fields) ==
    IF is_empty(filter)
    THEN Built("{ " \o root \o " { nodes { $fields } } }", None, None, fields, resp_pointer)
    ELSE Built("{ " \o root \o "($filter) { nodes { $fields } } }",
               None, Some(filter), fields, resp_pointer)

singleton_query_default(object, id, resp_pointer, fields) ==
    Built("{ " \o object \o "(id: \"$id\") { $fields } }",
          IF is_some(id) THEN id ELSE Some(""), None, fields, resp_pointer)

\* arms "issue", "team", "project", "user": opts.get("id").ok_or(..)?
singleton_query(object, id, resp_pointer, fields) ==
    IF is_none(id)
    THEN Failed("Missing required option 'id' for object '" \o object \o "'")
    ELSE Built("{ " \o object \o "(id: \"$id\") { $fields } }", id, None, fields, resp_pointer)

\* arms "project_issues", "user_assigned_issues", "cycle_issues"
scoped_query(object, option, id, parent, root, resp_pointer, filter, fields) ==
    IF is_none(id)
    THEN Failed("Missing required option '" \o option \o "' for object '" \o object \o "'")
    ELSE IF is_empty(filter)
    THEN Built("{ " \o parent \o "(id: \"$id\") { " \o root \o " { nodes { $fields } } } }",
               id, None, fields, resp_pointer)
    ELSE Built("{ " \o parent \o "(id: \"$id\") { " \o root \o "($filter) { nodes { $fields } } } }",
               id, Some(filter), fields, resp_pointer)

\* match object.as_str() { ... }
build_query(object, opts, filter, fields) ==
    CASE object = "issues" ->
           collection_query("issues", <<n_data, n_issues, n_nodes>>, filter, fields)
      [] object = "issue" ->
           singleton_query("issue", opts.id, <<n_data, n_issue>>, fields)
      [] object = "teams" ->
           collection_query("teams", <<n_data, n_teams, n_nodes>>, filter, fields)
      [] object = "team" ->
           singleton_query("team", opts.id, <<n_data, n_team>>, fields)
      [] object = "projects" ->
           collection_query("projects", <<n_data, n_projects, n_nodes>>, filter, fields)
      [] object = "project" ->
           singleton_query("project", opts.id, <<n_data, n_project>>, fields)
      [] object = "project_issues" ->
           scoped_query("project_issues", "project_id", opts.project_id, "project", "issues",
                        <<n_data, n_project, n_issues, n_nodes>>, filter, fields)
      [] object = "users" ->
           collection_query("users", <<n_data, n_users, n_nodes>>, filter, fields)
      [] object = "user" ->
           singleton_query("user", opts.id, <<n_data, n_user>>, fields)
      [] object = "user_assigned_issues" ->
           scoped_query("user_assigned_issues", "user_id", opts.user_id, "user",
                        "assignedIssues",
                        <<n_data, n_user, n_assignedIssues, n_nodes>>, filter, fields)
      [] object = "cycles" ->
           collection_query("cycles", <<n_data, n_cycles, n_nodes>>, filter, fields)
      [] object = "cycle_issues" ->
           scoped_query("cycle_issues", "cycle_id", opts.cycle_id, "cycle", "issues",
                        <<n_data, n_cycle, n_issues, n_nodes>>, filter, fields)
      [] object = "workflow_states" ->
           collection_query("workflowStates", <<n_data, n_workflowStates, n_nodes>>,
                            filter, fields)
      [] object = "issue_labels" ->
           collection_query("issueLabels", <<n_data, n_issueLabels, n_nodes>>, filter, fields)
      [] OTHER -> Failed("Unknown object type: " \o object)

----------------------------------------------------------------------------
(* begin_scan: the response                                                *)

\* A response body is kept as what serde_json::from_str makes of it: Some(value),
\* or None when the text is not JSON.
from_str(body) == body.parse

\* resp_json.get("errors") is an array and not empty
has_graphql_errors(resp_json) ==
    LET errors == get(resp_json, n_errors)
    IN  /\ is_some(errors)
        /\ is_some(as_array(unwrap(errors)))
        /\ unwrap(as_array(unwrap(errors))) # <<>>

flatten_arrays_only(resp_json, resp_pointer) ==
    LET arr == pointer(resp_json, resp_pointer)
    IN  IF is_some(arr) /\ is_some(as_array(unwrap(arr)))
        THEN unwrap(as_array(unwrap(arr)))
        ELSE <<>>

\* "Always flatten to an array for iter_scan"
flatten(resp_json, resp_pointer) ==
    LET arr == pointer(resp_json, resp_pointer)
    IN  IF is_some(arr)
        THEN IF is_some(as_array(unwrap(arr))) THEN unwrap(as_array(unwrap(arr)))
             ELSE IF is_object(unwrap(arr)) THEN <<unwrap(arr)>>
             ELSE <<>>
        ELSE <<>>

----------------------------------------------------------------------------
(* iter_scan: one cell per target column                                   *)

Cell_String(s) == [c |-> "String", s |-> s]
Cell_Bool(b) == [c |-> "Bool", b |-> b]
Cell_I32(i) == [c |-> "I32", i |-> i]
Cell_I64(v) == [c |-> "I64", hi |-> v.hi, lo |-> v.lo]
Cell_Timestamp(ts) == [c |-> "Timestamp", ts |-> ts]
Cell_Json(text) == [c |-> "Json", text |-> text]

\* serde_json::to_string / Value::to_string: the text is kept as the value it writes
to_string(v) == [json |-> v]

\* `v as i32` on an i64: the low 32 bits, read as a signed 32-bit integer
as_i32(v) == v.lo

\* time::parse_from_rfc3339 of the host: the timestamp of a date-time text, or Err
Rfc3339Texts == {"2024-01-01T00:00:00Z", "2024-06-30T12:00:00+02:00"}
parse_from_rfc3339(s) ==
    IF s \in Rfc3339Texts THEN [ok |-> TRUE, ts |-> [of |-> s]] ELSE [ok |-> FALSE]

CellOk(cell) == [ok |-> TRUE, cell |-> cell]
CellErr(err) == [ok |-> FALSE, err |-> err]

\* arms "state_id", "team_id", ..., "state": member `member` of the nested object
\* `key`, when it is a string
relation_cell(src_row, key, member) ==
    LET v == and_then(and_then(and_then(and_then(as_object(src_row),
                 LAMBDA o : get(o, key)),
                 LAMBDA o : as_object(o)),
                 LAMBDA o : get(o, member)),
                 LAMBDA o : as_str(o))
    IN  IF is_some(v) THEN CellOk(Some(Cell_String(unwrap(v)))) ELSE CellOk(None)

\* arm "labels": labels.nodes as JSON text, when it is an array
labels_cell(src_row) ==
    LET v == and_then(and_then(and_then(as_object(src_row),
                 LAMBDA o : get(o, n_labels)),
                 LAMBDA o : as_object(o)),
                 LAMBDA o : get(o, n_nodes))
    IN  IF is_some(v) /\ is_some(as_array(unwrap(v)))
        THEN CellOk(Some(Cell_Json(to_string(unwrap(v)))))
        ELSE CellOk(None)

\* match tgt_col.type_oid() { ... } on a value that is present
typed_cell(value, type_oid, tgt_col_name) ==
    CASE type_oid = "Bool" ->
           CellOk(IF is_some(as_bool(value))
                  THEN Some(Cell_Bool(unwrap(as_bool(value)))) ELSE None)
      [] type_oid = "I32" ->
           CellOk(IF is_some(as_i64(value))
                  THEN Some(Cell_I32(as_i32(unwrap(as_i64(value))))) ELSE None)
      [] type_oid = "I64" ->
           CellOk(IF is_some(as_i64(value))
                  THEN Some(Cell_I64(unwrap(as_i64(value)))) ELSE None)
      [] type_oid = "String" ->
           CellOk(IF is_some(as_str(value))
                  THEN Some(Cell_String(unwrap(as_str(value)))) ELSE None)
      [] type_oid \in {"Timestamp", "Timestamptz"} ->
           IF is_some(as_str(value))
           THEN LET ts == parse_from_rfc3339(unwrap(as_str(value)))
                IN  IF ts.ok THEN CellOk(Some(Cell_Timestamp(ts.ts)))
                    ELSE CellErr("parse_from_rfc3339")
           ELSE CellOk(None)
      [] type_oid = "Json" ->
           CellOk(IF is_object(value) THEN Some(Cell_Json(to_string(value))) ELSE None)
      [] OTHER -> CellErr("column data type is not supported")

regular_cell_strict(src_row, tgt_col) ==
    LET camel_name == snake_to_camel(tgt_col.name)
        src == and_then(as_object(src_row), LAMBDA o : get(o, camel_name))
    IN  IF is_some(src) THEN typed_cell(unwrap(src), tgt_col.type_oid, tgt_col.name)
        ELSE CellErr("missing field")

\* the `_` arm: a regular field, looked up under its camelCase name
regular_cell(src_row, tgt_col) ==
    LET camel_name == snake_to_camel(tgt_col.name)
        src == and_then(as_object(src_row), LAMBDA o : get(o, camel_name))
    IN  IF is_some(src) THEN typed_cell(unwrap(src), tgt_col.type_oid, tgt_col.name)
        ELSE CellOk(None)

\* let cell = match tgt_col_name.as_str() { ... }
column_cell(src_row, tgt_col) ==
    CASE tgt_col.name = n_state_id -> relation_cell(src_row, n_state, n_id)
      [] tgt_col.name = n_team_id -> relation_cell(src_row, n_team, n_id)
      [] tgt_col.name = n_assignee_id -> relation_cell(src_row, n_assignee, n_id)
      [] tgt_col.name = n_creator_id -> relation_cell(src_row, n_creator, n_id)
      [] tgt_col.name = n_parent_id -> relation_cell(src_row, n_parent, n_id)
      [] tgt_col.name = n_project_id -> relation_cell(src_row, n_project, n_id)
      [] tgt_col.name = n_cycle_id -> relation_cell(src_row, n_cycle, n_id)
      [] tgt_col.name = n_state -> relation_cell(src_row, n_state, n_name)
      [] tgt_col.name = n_labels -> labels_cell(src_row)
      [] OTHER -> regular_cell(src_row, tgt_col)

\* for tgt_col in ctx.get_columns() { ...; row.push(cell) }: the cells pushed, and
\* the error that ended the loop early, if any
RECURSIVE columns_loop(_, _, _, _)
columns_loop(src_row, columns, i, row) ==
    IF i > Len(columns) THEN [ok |-> TRUE, row |-> row]
    ELSE LET cell == column_cell(src_row, columns[i])
         IN  IF cell.ok THEN columns_loop(src_row, columns, i + 1, Append(row, cell.cell))
             ELSE [ok |-> FALSE, row |-> row, err |-> cell.err]

----------------------------------------------------------------------------
(* The environments: a host Context and the records of the remote API      *)

SeqsUpTo(S, n) == UNION {[1..k -> S] : k \in 0..n}

ServerOpts(api_url, key, key_id) == [api_url |-> api_url, api_key |-> key, api_key_id |-> key_id]

TableOpts(object, id, project_id, user_id, cycle_id) ==
    [object |-> object, id |-> id, project_id |-> project_id, user_id |-> user_id,
     cycle_id |-> cycle_id]

Column(name, type_oid) == [name |-> name, type_oid |-> type_oid]
Qual(field, operator, value) == [field |-> field, operator |-> operator, value |-> value]
CellValue(c, text) == [v |-> "Cell", cell |-> [c |-> c, text |-> text]]
ArrayValue == [v |-> "Array"]

Context(server, table, columns, quals) ==
    [server |-> server, table |-> table, columns |-> columns, quals |-> quals]

KeyOpts == ServerOpts(None, Some("lin_api_key"), None)
ServerChoices ==
    {KeyOpts, ServerOpts(Some("http://localhost:8080/graphql"), Some("lin_api_key"), None),
     ServerOpts(None, None, Some("key-id")), ServerOpts(None, None, None)}

ObjectNames ==
    {"issues", "issue", "teams", "team", "projects", "project", "project_issues",
     "users", "user", "user_assigned_issues", "cycles", "cycle_issues",
     "workflow_states", "issue_labels"}

\* the object option: missing, a supported name, or a name begin_scan does not know
ObjectChoices == {None} \cup {Some(o) : o \in ObjectNames \cup {"labels"}}

\* the id options a table is declared with
IdChoices ==
    {<<None, None, None, None>>, <<Some("I1"), None, None, None>>,
     <<None, Some("P1"), None, None>>, <<None, None, Some("U1"), None>>,
     <<None, None, None, Some("C1")>>, <<Some("I1"), Some("P1"), Some("U1"), Some("C1")>>}

TableChoices ==
    {TableOpts(o, ids[1], ids[2], ids[3], ids[4]) : o \in ObjectChoices, ids \in IdChoices}

IssuesTable == TableOpts(Some("issues"), None, None, None, None)
IssueTable == TableOpts(Some("issue"), Some("I1"), None, None, None)

\* every operator of the table and one outside it, on a string value
Operators ==
    {"=", "<>", ">", ">=", "<", "<=", "~~", "!~~", "~~*", "!~~*", "IS NULL", "IS NOT NULL"}
OperatorQuals == {Qual(n_title, op, CellValue("String", "X")) : op \in Operators \cup {"@>"}}

\* every kind of value on "="; "Other" is a cell variant begin_scan does not name
ValueQuals ==
    {Qual(n_state_id, "=", CellValue("Bool", "true")),
     Qual(n_estimate, "=", CellValue("I32", "3")),
     Qual(n_estimate, "=", CellValue("I64", "-5000000000")),
     Qual(n_created_at, "=", CellValue("Timestamp", "1704067200000000")),
     Qual(n_labels, "=", CellValue("Json", "{}")),
     Qual(n_estimate, "=", CellValue("Other", "1.5")),
     Qual(n_labels, "=", ArrayValue)}

KeptQual == Qual(n_title, "=", CellValue("String", "X"))
DroppedQual == Qual(n_labels, "@>", ArrayValue)

IdColumn == Column(n_id, "String")

\* scans of issues / one issue over two records, one with a bad timestamp
Record1 == JObj((n_id :> JStr("1")) @@ (n_createdAt :> JStr("2024-01-01T00:00:00Z")))
Record2 == JObj((n_id :> JStr("2")) @@ (n_createdAt :> JStr("yesterday")))

LifeRecords == {Record1, Record2}

\* the table as declared, with its id option dropped, with its object option dropped
LifeTables ==
    {IssuesTable, IssueTable, TableOpts(Some("issue"), None, None, None, None),
     TableOpts(None, Some("I1"), None, None, None)}

LifeEnvs ==
    {<<Context(server, IssuesTable, <<IdColumn>>, <<>>), LifeRecords>> :
        server \in ServerChoices}
        \cup {<<Context(KeyOpts, IssueTable,
                        <<IdColumn, Column(n_created_at, "Timestamp")>>, <<>>), LifeRecords>>}

\* every object and id option, with quals that are kept, dropped or both
ObjectEnvs ==
    {<<Context(KeyOpts, table, <<IdColumn>>, quals), {}>> :
        table \in TableChoices, quals \in SeqsUpTo({KeptQual, DroppedQual}, MaxQuals)}

\* every operator and every kind of value alone, and lists of some of them
ListQuals ==
    {Qual(n_title, "=", CellValue("String", "X")),
     Qual(n_title, "~~*", CellValue("String", "X")),
     Qual(n_created_at, "<=", CellValue("Timestamp", "1704067200000000")),
     Qual(n_state_id, "IS NOT NULL", CellValue("Bool", "true")),
     Qual(n_title, "@>", CellValue("String", "X")),
     Qual(n_estimate, "=", CellValue("Other", "1.5"))}

QualEnvs ==
    {<<Context(KeyOpts, IssuesTable, <<IdColumn>>, quals), {}>> :
        quals \in {<<qual>> : qual \in OperatorQuals \cup ValueQuals}
                      \cup SeqsUpTo(ListQuals, MaxQuals)}

\* a record with one field of every kind of JSON value, declared with every type
MinI32 == -2147483647 - 1
MaxI32 == 2147483647

JsonSamples ==
    {JNull, JBool(TRUE), JInt(0, 7), JInt(-1, -3), JInt(0, -3), JInt(1, 5),
     JInt(0, MinI32), JInt(-1, MaxI32), JInt(0, MaxI32), JInt(-1, MinI32),
     JFloat("1.5"), JStr("Done"), JStr("2024-06-30T12:00:00+02:00"), JStr("yesterday"),
     JObj(n_id :> JStr("s1")), JArr(<<>>)}

TypeOids == {"Bool", "I32", "I64", "String", "Timestamp", "Timestamptz", "Json", "Other"}

\* records with the field, records without it (one of them not an object)
FieldRecords == {JObj(n_estimate :> v) : v \in JsonSamples}
BareRecords == {JObj(n_id :> JStr("1")), JStr("not an object")}
RelationRecords ==
    {JObj(n_state :> JObj((n_id :> JStr("s1")) @@ (n_name :> JStr("Done")))),
     JObj(n_state :> JObj(n_id :> JInt(0, 1))),
     JObj(n_state :> JNull),
     JObj(n_labels :> JObj(n_nodes :> JArr(<<JObj(n_id :> JStr("l1"))>>))),
     JObj(n_labels :> JObj(n_id :> JStr("l1")))}

FieldColumns ==
    {<<Column(n_estimate, t)>> : t \in TypeOids}
        \cup {<<IdColumn, Column(n_estimate, "Other")>>,
              <<Column(n_estimate, "Other"), IdColumn>>}
RelationColumns ==
    {<<Column(n, t)>> : n \in {n_state, n_state_id, n_labels}, t \in {"String", "Other"}}

CoerceEnvs ==
    {<<Context(KeyOpts, IssuesTable, columns, <<>>), {rec}>> :
        columns \in FieldColumns, rec \in FieldRecords \cup BareRecords}
        \cup {<<Context(KeyOpts, IssuesTable, columns, <<>>), {rec}>> :
                 columns \in RelationColumns, rec \in RelationRecords \cup BareRecords}

Environments == LifeEnvs \cup ObjectEnvs \cup QualEnvs \cup CoerceEnvs

----------------------------------------------------------------------------
(* What a handler call shows to the host                                   *)

\* res: "Ok" is Ok(()), "Row" is Ok(Some(0)), "End" is Ok(None), "Err" is Err(err);
\* sent: the HTTP requests of the call; got: the responses to them; query: the
\* query text built, if any; row: the cells pushed to the row; read: the index
\* (from 1) of the element of src_rows the call read, 0 when it read none
Out(op, res, err, sent, got, query, row, read) ==
    [op |-> op, res |-> res, err |-> err, sent |-> sent, got |-> got, query |-> query,
     row |-> row, read |-> read]

Returned(op, res, err) == Out(op, res, err, <<>>, <<>>, None, <<>>, 0)

----------------------------------------------------------------------------
(* The remote API                                                          *)

\* the node the API puts at the result pointer: none, null, one record, or an array
NodeChoices(recs) ==
    {None, Some(JNull)} \cup {Some(r) : r \in recs}
        \cup {Some(JArr(items)) : items \in SeqsUpTo(recs, MaxRows)}

\* the top-level errors member: none, an empty array, an array of one error, a string
ErrorsChoices ==
    {None, Some(JArr(<<>>)), Some(JArr(<<JObj(n_title :> JStr("Entity not found"))>>)),
     Some(JStr("boom"))}

RECURSIVE Wrap(_, _)
Wrap(path, node) ==
    IF path = <<>> THEN node ELSE JObj(Head(path) :> Wrap(Tail(path), node))

\* {"errors": errors, "data": {... node ...}}; "data": null when there is no node
Doc(errors, node, resp_pointer) ==
    LET data == IF is_some(node) THEN Wrap(Tail(resp_pointer), unwrap(node)) ELSE JNull
    IN  JObj(IF is_some(errors)
             THEN (n_errors :> unwrap(errors)) @@ (n_data :> data)
             ELSE (n_data :> data))

HttpErr == [ok |-> FALSE]
HttpResp(status_code, body) == [ok |-> TRUE, status_code |-> status_code, body |-> body]

\* what http::post can return for a query with this result pointer: a transport
\* error, a non-200 status (with or without records in the body), a body that is
\* not JSON, a body without errors member over every node, and a body with an
\* errors member with and without records
Responses(resp_pointer, recs) ==
    LET one_record == {Some(JArr(<<r>>)) : r \in recs}
    IN  {HttpErr, HttpResp(500, [parse |-> None]), HttpResp(200, [parse |-> None])}
            \cup {HttpResp(500, [parse |-> Some(Doc(None, n, resp_pointer))]) :
                     n \in one_record}
            \cup {HttpResp(200, [parse |-> Some(Doc(None, n, resp_pointer))]) :
                     n \in NodeChoices(recs)}
            \cup {HttpResp(200, [parse |-> Some(Doc(e, n, resp_pointer))]) :
                     e \in ErrorsChoices \ {None}, n \in {None} \cup one_record}

\* utils::get_vault_secret(key_id)
VaultSecrets == {None, Some("vault-secret")}

----------------------------------------------------------------------------
(* The handlers                                                            *)

\* fn init: init_instance() replaces the instance by LinearFdw::default(), then
\* the server options are read.  The host calls the other handlers only after an
\* init that returned Ok.
InitFdw ==
    \E secret \in VaultSecrets :
        LET opts == ctx.server
        IN  /\ src_rows' = <<>>
            /\ src_idx' = 0
            /\ base_url' = IF is_some(opts.api_url) THEN unwrap(opts.api_url)
                           ELSE "https://api.linear.app/graphql"
            /\ IF is_some(opts.api_key)
               THEN /\ api_key' = unwrap(opts.api_key)
                    /\ out' = Returned("init", "Ok", "")
                    /\ inited' = TRUE
               ELSE IF is_none(opts.api_key_id)
               THEN /\ api_key' = ""
                    /\ out' = Returned("init", "Err", "required option 'api_key_id'")
                    /\ inited' = FALSE
               ELSE /\ api_key' = (IF is_some(secret) THEN unwrap(secret) ELSE "")
                    /\ out' = Returned("init", "Ok", "")
                    /\ inited' = TRUE
            /\ scan_pos' = -1
            /\ UNCHANGED <<ctx, remote>>

\* the request of begin_scan
Request(query) ==
    [method |-> "Post", url |-> base_url,
     headers |-> <<<<"content-type", "application/json">>, <<"authorization", api_key>>>>,
     body |-> [query |-> query]]

Posted_retry(query) == <<Request(query), Request(query)>>

\* let resp = http::post(&req)?: the one request of a begin_scan
Posted(query) == <<Request(query)>>

\* begin_scan from http::post on: status, JSON, errors, flatten
Materialize(built, resp) ==
    LET sent == Posted(built.query)
        q == Some(built.query)
        Fail(err) == /\ out' = Out("begin_scan", "Err", err, sent, <<resp>>, q, <<>>, 0)
                     /\ scan_pos' = -1
                     /\ UNCHANGED src_rows
    IN  IF ~resp.ok THEN Fail("http::post")
        ELSE IF resp.status_code # 200 THEN Fail("Failed to get data")
        ELSE IF is_none(from_str(resp.body)) THEN Fail("Failed to parse JSON response")
        ELSE IF has_graphql_errors(unwrap(from_str(resp.body))) THEN Fail("GraphQL errors")
        ELSE /\ src_rows' = flatten(unwrap(from_str(resp.body)), built.resp_pointer)
             /\ out' = Out("begin_scan", "Ok", "", sent, <<resp>>, q, <<>>, 0)
             /\ scan_pos' = 0

\* fn begin_scan
BeginScan ==
    /\ inited
    /\ LET opts == ctx.table
       IN  IF is_none(opts.object)
           THEN /\ out' = Returned("begin_scan", "Err", "required option 'object'")
                /\ scan_pos' = -1
                /\ UNCHANGED src_rows
           ELSE LET built == build_query(unwrap(opts.object), opts,
                                         filter_conditions(ctx.quals),
                                         graphql_fields(ctx.columns))
                IN  IF ~built.ok
                    THEN /\ out' = Returned("begin_scan", "Err", built.err)
                         /\ scan_pos' = -1
                         /\ UNCHANGED src_rows
                    ELSE \E resp \in Responses(built.resp_pointer, remote) :
                             Materialize(built, resp)
    /\ UNCHANGED <<inited, src_idx, base_url, api_key, ctx, remote>>

\* if this.src_idx >= this.src_rows.len() { return Ok(None); }
IterEnd_row ==
    /\ out' = Returned("iter_scan", "Row", "")
    /\ UNCHANGED <<src_idx, scan_pos>>

IterEnd ==
    /\ out' = Returned("iter_scan", "End", "")
    /\ UNCHANGED <<src_idx, scan_pos>>

IterFail_skip(r) ==
    /\ out' = Out("iter_scan", "Err", r.err, <<>>, <<>>, None, r.row, src_idx + 1)
    /\ scan_pos' = -1
    /\ src_idx' = src_idx + 1

\* the early returns of the column loop: `parse_from_rfc3339(s)?` and
\* `return Err(format!("column {} data type is not supported", ..))`
IterFail(r) ==
    /\ out' = Out("iter_scan", "Err", r.err, <<>>, <<>>, None, r.row, src_idx + 1)
    /\ scan_pos' = -1
    /\ UNCHANGED src_idx

\* fn iter_scan
IterScan ==
    /\ inited
    /\ IF src_idx >= Len(src_rows)
       THEN IterEnd
       ELSE LET r == columns_loop(src_rows[src_idx + 1], ctx.columns, 1, <<>>)
            IN  IF r.ok
                THEN /\ src_idx' = src_idx + 1
                     /\ out' = Out("iter_scan", "Row", "", <<>>, <<>>, None, r.row, src_idx + 1)
                     /\ scan_pos' = IF scan_pos >= 0 /\ scan_pos < Len(src_rows)
                                    THEN scan_pos + 1 ELSE scan_pos
                ELSE IterFail(r)
    /\ UNCHANGED <<inited, src_rows, base_url, api_key, ctx, remote>>

\* fn re_scan
ReScan ==
    /\ inited
    /\ out' = Returned("re_scan", "Err", "re_scan on foreign table is not supported")
    /\ scan_pos' = -1
    /\ UNCHANGED <<inited, src_rows, src_idx, base_url, api_key, ctx, remote>>

EndScan_reset ==
    /\ inited
    /\ src_rows' = <<>>
    /\ src_idx' = 0
    /\ out' = Returned("end_scan", "Ok", "")
    /\ scan_pos' = -1
    /\ UNCHANGED <<inited, base_url, api_key, ctx, remote>>

\* fn end_scan
EndScan ==
    /\ inited
    /\ src_rows' = <<>>
    /\ out' = Returned("end_scan", "Ok", "")
    /\ scan_pos' = -1
    /\ UNCHANGED <<inited, src_idx, base_url, api_key, ctx, remote>>

BeginModify_ok ==
    /\ inited
    /\ out' = Returned("begin_modify", "Ok", "")
    /\ scan_pos' = -1
    /\ UNCHANGED <<inited, src_rows, src_idx, base_url, api_key, ctx, remote>>

\* fn begin_modify
BeginModify ==
    /\ inited
    /\ out' = Returned("begin_modify", "Err", "modify on foreign table is not supported")
    /\ scan_pos' = -1
    /\ UNCHANGED <<inited, src_rows, src_idx, base_url, api_key, ctx, remote>>

\* fn insert, fn update, fn delete, fn end_modify: each is `Ok(())`
NoOp(op) ==
    /\ inited
    /\ out' = Returned(op, "Ok", "")
    /\ scan_pos' = -1
    /\ UNCHANGED <<inited, src_rows, src_idx, base_url, api_key, ctx, remote>>

\* ctx.get_options(&OptionsType::Table): the host hands every call the Context of
\* the foreign table, whose options can be altered between two calls; `out` then
\* shows no call yet under the new options
AlterTable ==
    /\ remote = LifeRecords
    /\ \E table \in LifeTables \ {ctx.table} : ctx' = [ctx EXCEPT !.table = table]
    /\ out' = Returned("", "", "")
    /\ scan_pos' = -1
    /\ UNCHANGED <<inited, src_rows, src_idx, base_url, api_key, remote>>

Insert == NoOp("insert")
Update == NoOp("update")
Delete == NoOp("delete")
EndModify == NoOp("end_modify")

----------------------------------------------------------------------------
(* The specification                                                       *)

\* before init: INSTANCE is null, and the host calls init first
Init ==
    /\ inited = FALSE
    /\ src_rows = <<>>
    /\ src_idx = 0
    /\ base_url = ""
    /\ api_key = ""
    /\ \E env \in Environments : ctx = env[1] /\ remote = env[2]
    /\ out = Returned("", "", "")
    /\ scan_pos = -1

Next ==
    \/ InitFdw
    \/ BeginScan
    \/ IterScan
    \/ ReScan
    \/ EndScan
    \/ BeginModify
    \/ Insert
    \/ Update
    \/ Delete
    \/ EndModify
    \/ AlterTable

Spec == Init /\ [][Next]_vars

TypeOK ==
    /\ inited \in BOOLEAN
    /\ src_idx \in 0..MaxRows
    /\ Len(src_rows) <= MaxRows
    /\ scan_pos \in -1..MaxRows

----------------------------------------------------------------------------
(* Properties                                                              *)

\* a step that is a call of handler `op`
Call(op) == out'.op = op

\* C1: in a scan (a successful begin_scan followed by iter_scan calls only, none
\* of which failed), the k-th iter_scan returns the k-th fetched record, and
\* exhaustion is signalled only after all of them were returned.
C1_ScanReturnsFetchedRecordsInOrder ==
    (scan_pos >= 0 /\ out.op = "iter_scan") =>
        /\ out.res = "Row" => out.read = scan_pos
        /\ out.res = "End" => scan_pos = Len(src_rows)

\* C2: the cursor never exceeds the record count.
C2_CursorWithinRecords == inited => src_idx <= Len(src_rows)

\* C3: once the cursor has reached the record count, every iter_scan returns
\* Ok(None) and leaves cursor and records as they are, and the cursor stays at or
\* beyond the record count over every call but a begin_scan.
C3_ExhaustionIsIdempotent ==
    [][(inited /\ src_idx >= Len(src_rows)) =>
          /\ Call("iter_scan") =>
                /\ out'.res = "End"
                /\ src_idx' = src_idx
                /\ src_rows' = src_rows
          /\ ~Call("begin_scan") => src_idx' >= Len(src_rows')]_vars

C3_Witness ==
    /\ out.op = "iter_scan"
    /\ out.res = "End"
    /\ src_idx = Len(src_rows)
    /\ src_idx > 0

\* C4: after a begin_scan that failed on the response (status, JSON, errors) the
\* record sequence is empty.
MaterializationErrors ==
    {"Failed to get data", "Failed to parse JSON response", "GraphQL errors"}

C4_FailedScanLeavesNoRecords ==
    (out.op = "begin_scan" /\ out.res = "Err" /\ out.err \in MaterializationErrors) =>
        src_rows = <<>>

\* C5: a begin_scan whose table options lack the object, name an unknown object,
\* or lack the id the object needs, fails without sending a request and without
\* touching records or cursor.
SingletonNames == {"issue", "team", "project", "user"}

ConfigBad(table) ==
    \/ is_none(table.object)
    \/ /\ is_some(table.object)
       /\ LET object == unwrap(table.object)
          IN  \/ object \notin ObjectNames
              \/ object \in SingletonNames /\ is_none(table.id)
              \/ object = "project_issues" /\ is_none(table.project_id)
              \/ object = "user_assigned_issues" /\ is_none(table.user_id)
              \/ object = "cycle_issues" /\ is_none(table.cycle_id)

C5_ConfigErrorsBeforeAnyRequest ==
    [][(Call("begin_scan") /\ ConfigBad(ctx.table)) =>
          /\ out'.res = "Err"
          /\ out'.sent = <<>>
          /\ src_rows' = src_rows
          /\ src_idx' = src_idx]_vars

C5_Witness ==
    /\ out.op = "begin_scan"
    /\ out.res = "Err"
    /\ ConfigBad(ctx.table)
    /\ is_some(ctx.table.object)
    /\ src_rows # <<>>
    /\ src_idx > 0

\* C6: every write-path call returns the "not supported" error.
WriteOps == {"begin_modify", "insert", "update", "delete", "end_modify"}

C6_WritePathAlwaysFails ==
    out.op \in WriteOps =>
        out.res = "Err" /\ out.err = "modify on foreign table is not supported"

\* C6, amended: begin_modify always returns the "not supported" error; insert,
\* update, delete and end_modify return Ok; none of the five changes the instance.
C6_BeginModifyFailsOthersAreNoOps ==
    [][/\ Call("begin_modify") =>
            out'.res = "Err" /\ out'.err = "modify on foreign table is not supported"
       /\ (\E op \in WriteOps \ {"begin_modify"} : Call(op)) => out'.res = "Ok"
       /\ (\E op \in WriteOps : Call(op)) =>
            UNCHANGED <<inited, src_rows, src_idx, base_url, api_key>>]_vars

C6_Witness ==
    /\ out.op = "begin_modify"
    /\ out.res = "Err"
    /\ src_rows # <<>>

\* C7: an iter_scan that reads a record for columns of which one has a declared
\* type outside boolean, 32/64-bit integer, string, timestamp and JSON fails with
\* the unsupported-type error.
SupportedTypes == {"Bool", "I32", "I64", "String", "Timestamp", "Timestamptz", "Json"}

C7_UnsupportedTypeAlwaysFatal ==
    (/\ out.op = "iter_scan"
     /\ out.read > 0
     /\ \E i \in 1..Len(ctx.columns) : ctx.columns[i].type_oid \notin SupportedTypes) =>
        out.res = "Err" /\ out.err = "column data type is not supported"

\* C8: a 32-bit integer column over a JSON integer holds that integer when it is
\* within -2^31 .. 2^31-1 and is null otherwise.
InI32Range(v) == (v.hi = 0 /\ v.lo >= 0) \/ (v.hi = -1 /\ v.lo < 0)

C8_I32NeverTruncates ==
    (/\ out.op = "iter_scan"
     /\ out.res = "Row"
     /\ ctx.columns = <<Column(n_estimate, "I32")>>
     /\ is_some(get(src_rows[out.read], n_estimate))
     /\ unwrap(get(src_rows[out.read], n_estimate)).t = "int") =>
        LET v == unwrap(get(src_rows[out.read], n_estimate))
        IN  out.row = <<IF InI32Range(v) THEN Some(Cell_I32(v.lo)) ELSE None>>

\* C9: for an object that takes a filter, the filter clause of the query holds one
\* fragment `field: { op: value }` per qual whose operator is in the table and
\* whose value is a string, timestamp, boolean or integer cell, in qual order, and
\* nothing else; quals never keep a well-configured begin_scan from sending its query.
OpTable ==
    ("=" :> "eq") @@ ("<>" :> "neq") @@ (">" :> "gt") @@ (">=" :> "gte")
        @@ ("<" :> "lt") @@ ("<=" :> "lte") @@ ("~~" :> "contains")
        @@ ("!~~" :> "notContains") @@ ("~~*" :> "containsIgnoreCase")
        @@ ("!~~*" :> "notContainsIgnoreCase") @@ ("IS NULL" :> "null")
        @@ ("IS NOT NULL" :> "notNull")

CamelNames ==
    (n_id :> n_id) @@ (n_title :> n_title) @@ (n_estimate :> n_estimate)
        @@ (n_labels :> n_labels)
        @@ (n_state_id :> (n_state \o <<"I", "d">>)) @@ (n_created_at :> n_createdAt)

Translates(qual) ==
    /\ qual.operator \in DOMAIN OpTable
    /\ qual.value.v = "Cell"
    /\ qual.value.cell.c \in {"String", "Timestamp", "Bool", "I32", "I64"}

Fragment(qual) ==
    [field |-> CamelNames[qual.field], op |-> OpTable[qual.operator],
     value |-> [quoted |-> qual.value.cell.c \in {"String", "Timestamp"},
                text |-> qual.value.cell.text]]

ExpectedFragments(quals) ==
    LET kept == SelectSeq(quals, Translates)
    IN  [i \in 1..Len(kept) |-> Fragment(kept[i])]

QueryFragments(query) ==
    IF is_some(query.filter) THEN unwrap(query.filter).filters ELSE <<>>

C9_FilterKeepsSupportedQuals ==
    out.op = "begin_scan" =>
        /\ ~ConfigBad(ctx.table) => is_some(out.query) /\ out.sent # <<>>
        /\ (is_some(out.query) /\ unwrap(ctx.table.object) \notin SingletonNames) =>
              QueryFragments(unwrap(out.query)) = ExpectedFragments(ctx.quals)

C9_Witness ==
    /\ out.op = "begin_scan"
    /\ out.res = "Ok"
    /\ is_some(out.query)
    /\ Len(QueryFragments(unwrap(out.query))) = 1
    /\ Len(ctx.quals) = 2
    /\ ~Translates(ctx.quals[1])
    /\ Translates(ctx.quals[2])

\* C10: when no qual translates the query has no filter argument, and a filter
\* argument that is there always holds at least one fragment.
C10_NoEmptyFilter ==
    (out.op = "begin_scan" /\ is_some(out.query)) =>
        /\ ExpectedFragments(ctx.quals) = <<>> => is_none(unwrap(out.query).filter)
        /\ is_some(unwrap(out.query).filter) =>
              /\ unwrap(unwrap(out.query).filter).fmt = "filter: { $filters }"
              /\ unwrap(unwrap(out.query).filter).filters # <<>>

C10_Witness ==
    /\ out.op = "begin_scan"
    /\ is_some(out.query)
    /\ ctx.quals # <<>>
    /\ ExpectedFragments(ctx.quals) = <<>>
    /\ unwrap(ctx.table.object) \in ObjectNames \ SingletonNames
    /\ is_none(unwrap(out.query).filter)

\* C11: an iter_scan over a record that lacks the field of a requested column, or
\* the nested object or member of a relation column, succeeds with a null cell
\* for that column, one cell per column and the cursor advanced by one.
RelationMembers ==
    (n_state_id :> <<n_state, n_id>>) @@ (n_team_id :> <<n_team, n_id>>)
        @@ (n_assignee_id :> <<n_assignee, n_id>>) @@ (n_creator_id :> <<n_creator, n_id>>)
        @@ (n_parent_id :> <<n_parent, n_id>>) @@ (n_project_id :> <<n_project, n_id>>)
        @@ (n_cycle_id :> <<n_cycle, n_id>>) @@ (n_state :> <<n_state, n_name>>)
        @@ (n_labels :> <<n_labels, n_nodes>>)

\* the record has nothing for the column
Absent(record, column) ==
    IF column.name \in DOMAIN RelationMembers
    THEN is_none(pointer(record, RelationMembers[column.name]))
    ELSE is_none(pointer(record, <<CamelNames[column.name]>>))

AbsentColumns(record, columns) ==
    {i \in 1..Len(columns) : Absent(record, columns[i])}

C11_SoftAbsenceNeverFatal ==
    [][(/\ Call("iter_scan")
        /\ src_idx < Len(src_rows)
        /\ AbsentColumns(src_rows[src_idx + 1], ctx.columns) # {}) =>
          /\ out'.res = "Row"
          /\ Len(out'.row) = Len(ctx.columns)
          /\ \A i \in AbsentColumns(src_rows[src_idx + 1], ctx.columns) :
                 out'.row[i] = None
          /\ src_idx' = src_idx + 1]_vars

\* the column is a regular one whose field is there, and its declared type is
\* unsupported or it is a timestamp over a text that is no date-time
DataError(record, column) ==
    /\ column.name \notin DOMAIN RelationMembers
    /\ ~Absent(record, column)
    /\ LET value == unwrap(pointer(record, <<CamelNames[column.name]>>))
       IN  \/ column.type_oid \notin SupportedTypes
           \/ /\ column.type_oid \in {"Timestamp", "Timestamptz"}
              /\ value.t = "str"
              /\ value.s \notin Rfc3339Texts

\* C11, amended: the same, provided no other column of the record raises a fatal
\* data error (unsupported declared type or unparseable timestamp on a field
\* that is present).
C11_SoftAbsenceNotFatalByItself ==
    [][(/\ Call("iter_scan")
        /\ src_idx < Len(src_rows)
        /\ AbsentColumns(src_rows[src_idx + 1], ctx.columns) # {}
        /\ \A i \in 1..Len(ctx.columns) :
               ~DataError(src_rows[src_idx + 1], ctx.columns[i])) =>
          /\ out'.res = "Row"
          /\ Len(out'.row) = Len(ctx.columns)
          /\ \A i \in AbsentColumns(src_rows[src_idx + 1], ctx.columns) :
                 out'.row[i] = None
          /\ src_idx' = src_idx + 1]_vars

C11_Witness ==
    /\ out.op = "iter_scan"
    /\ out.res = "Row"
    /\ Len(ctx.columns) = 2
    /\ out.row[2] = None
    /\ is_some(out.row[1])
    /\ src_idx > 0


\* C12: a begin_scan sends no request when its configuration is bad and exactly
\* one otherwise, and has pushed no cell by then; iter_scan, end_scan and re_scan
\* send none, and a row comes from an element of src_rows.
C12_OneRequestPerScan ==
    /\ out.op = "begin_scan" =>
          /\ Len(out.sent) = (IF ConfigBad(ctx.table) THEN 0 ELSE 1)
          /\ Len(out.got) = Len(out.sent)
          /\ out.row = <<>>
          /\ out.read = 0
    /\ out.op \in {"iter_scan", "end_scan", "re_scan"} =>
          out.sent = <<>> /\ out.got = <<>>
    /\ (out.op = "iter_scan" /\ out.res = "Row") =>
          /\ out.read \in 1..Len(src_rows)
          /\ out.row = columns_loop(src_rows[out.read], ctx.columns, 1, <<>>).row

C12_Witness ==
    /\ out.op = "iter_scan"
    /\ out.res = "Row"
    /\ out.read = 2
    /\ out.sent = <<>>


\* C13: after a begin_scan answered with status 200, a JSON body and no non-empty
\* errors array, begin_scan has succeeded and src_rows is the array at the result
\* pointer as it is, or the single object there as one element, or empty when
\* nothing is there.
ResultPointers ==
    ("issues" :> <<n_data, n_issues, n_nodes>>) @@ ("issue" :> <<n_data, n_issue>>)
        @@ ("teams" :> <<n_data, n_teams, n_nodes>>) @@ ("team" :> <<n_data, n_team>>)
        @@ ("projects" :> <<n_data, n_projects, n_nodes>>)
        @@ ("project" :> <<n_data, n_project>>)
        @@ ("project_issues" :> <<n_data, n_project, n_issues, n_nodes>>)
        @@ ("users" :> <<n_data, n_users, n_nodes>>) @@ ("user" :> <<n_data, n_user>>)
        @@ ("user_assigned_issues" :> <<n_data, n_user, n_assignedIssues, n_nodes>>)
        @@ ("cycles" :> <<n_data, n_cycles, n_nodes>>)
        @@ ("cycle_issues" :> <<n_data, n_cycle, n_issues, n_nodes>>)
        @@ ("workflow_states" :> <<n_data, n_workflowStates, n_nodes>>)
        @@ ("issue_labels" :> <<n_data, n_issueLabels, n_nodes>>)

ErrorFree(doc) ==
    \/ doc.t # "obj"
    \/ n_errors \notin DOMAIN doc.map
    \/ doc.map[n_errors].t # "arr"
    \/ doc.map[n_errors].items = <<>>

GoodResponse(resp) ==
    /\ resp.ok
    /\ resp.status_code = 200
    /\ is_some(resp.body.parse)
    /\ ErrorFree(unwrap(resp.body.parse))

C13_NodeBecomesRecordSequence ==
    (out.op = "begin_scan" /\ out.got # <<>> /\ GoodResponse(out.got[1])) =>
        LET node == pointer(unwrap(out.got[1].body.parse),
                            ResultPointers[unwrap(ctx.table.object)])
        IN  /\ out.res = "Ok"
            /\ is_none(node) => src_rows = <<>>
            /\ (is_some(node) /\ unwrap(node).t = "arr") => src_rows = unwrap(node).items
            /\ (is_some(node) /\ unwrap(node).t = "obj") => src_rows = <<unwrap(node)>>

C13_Witness ==
    /\ out.op = "begin_scan"
    /\ out.res = "Ok"
    /\ unwrap(ctx.table.object) = "issue"
    /\ src_rows = <<Record2>>


\* C14: init sets the cursor to 0; begin_scan, end_scan, re_scan and the modify
\* calls leave it as it is; iter_scan adds one when it returns a row and leaves
\* it as it is when it signals exhaustion or fails.
C14_CursorOnlyResetByInit ==
    [][/\ Call("init") => src_idx' = 0
       /\ (\E op \in {"begin_scan", "end_scan", "re_scan"} \cup WriteOps : Call(op)) =>
             src_idx' = src_idx
       /\ Call("iter_scan") =>
             src_idx' = (IF out'.res = "Row" THEN src_idx + 1 ELSE src_idx)
       /\ ~Call("init") => src_idx' >= src_idx]_vars

C14_Witness ==
    /\ out.op = "begin_scan"
    /\ out.res = "Ok"
    /\ src_rows # <<>>
    /\ src_idx = Len(src_rows)

\* C15: an iter_scan that fails leaves cursor and records as they are, and an
\* iter_scan that follows a failed one reads the same record and fails the same way.
C15_FailedIterScanConsumesNothing ==
    [][/\ (Call("iter_scan") /\ out'.res = "Err") =>
             /\ out'.err \in {"parse_from_rfc3339", "column data type is not supported"}
             /\ src_idx' = src_idx
             /\ src_rows' = src_rows
             /\ out'.read = src_idx + 1
       /\ (out.op = "iter_scan" /\ out.res = "Err" /\ Call("iter_scan")) =>
             /\ out'.res = "Err"
             /\ out'.err = out.err
             /\ out'.read = out.read]_vars

C15_Witness ==
    /\ out.op = "iter_scan"
    /\ out.res = "Err"
    /\ out.err = "parse_from_rfc3339"
    /\ src_rows = <<Record1, Record2>>
    /\ src_idx = 1

\* C16: the query of a singleton object (issue, team, project, user) never has a
\* filter argument; the query of every other object has one exactly when at least
\* one qual translated.
C16_FilterOnlyForCollections ==
    (out.op = "begin_scan" /\ is_some(out.query)) =>
        IF unwrap(ctx.table.object) \in SingletonNames
        THEN is_none(unwrap(out.query).filter)
        ELSE is_some(unwrap(out.query).filter) <=> ExpectedFragments(ctx.quals) # <<>>

C16_Witness ==
    /\ out.op = "begin_scan"
    /\ is_some(out.query)
    /\ unwrap(ctx.table.object) \in SingletonNames
    /\ ExpectedFragments(ctx.quals) # <<>>
    /\ is_none(unwrap(out.query).filter)

====
